---- MODULE Spec2Model ----
(***************************************************************************)
(* Model of the synchronisation engine of sirh-time-sync:                  *)
(*   - SchedulerService (src/src/service/scheduler_service.py): the job    *)
(*     registry, the schedule of the `schedule` library and the loop       *)
(*     threads spawned by start();                                         *)
(*   - SyncService.upload_attendance_to_api and its helpers                *)
(*     (src/src/service/sync_service.py), over the record store of         *)
(*     src/src/data/sqlite_repositories.py.                                *)
(* The specifications of the module: SchedSpec for the scheduler,          *)
(* UploadSpec (UploadLiveSpec with fairness) for the upload run, StoreSpec *)
(* for the marking functions of the repository, CollectSpec for            *)
(* collection, DeviceSpec (DeviceLiveSpec with fairness) for collection    *)
(* over DeviceService (src/src/service/device_service.py), ImportSpec for  *)
(* SyncService.import_users_from_api_to_device, RerunSpec for upload calls *)
(* that follow one another while imports are outstanding on the remote,    *)
(* and ConcurrentSpec for save_records on two threads.                     *)
(***************************************************************************)
EXTENDS Integers, Sequences, FiniteSets, TLC

(***************************************************************************)
(* Bounds of the model (not program constants).                            *)
(***************************************************************************)
\* number of calls made on the scheduler's public surface
MaxCalls == 6
\* number of loop threads start() may spawn
MaxThreads == 2
\* number of schedule entries ever created by schedule_job
MaxEntries == 3

\* an omitted optional argument (interval_unit = None)
None == "None"
\* an omitted interval (interval = None); explicit intervals are positive
NoInterval == -1
\* job.job = None: the ScheduledJob holds no schedule handle
NoHandle == 0
\* job.last_run = None: the job was never run with run_job_now
NoRun == 0

(***************************************************************************)
(* Scheduler state.                                                        *)
(***************************************************************************)
VARIABLES
    config,     \* the rows of the config table: get_config returns the first or None
    jobs,       \* SchedulerService.jobs: name -> ScheduledJob
    running,    \* SchedulerService.running
    sched,      \* the job list of the schedule library's default scheduler
    nextId,     \* identity of the next schedule entry object
    thr,        \* the loop threads: position in _run_scheduler / run_pending
    nthreads,   \* number of threads spawned so far
    ncalls,     \* number of public calls made so far
    manual      \* the run_job_now call in progress or last returned

schedVars == <<config, jobs, running, sched, nextId, thr, nthreads, ncalls, manual>>

(***************************************************************************)
(* Record store and upload run state.                                      *)
(***************************************************************************)
VARIABLES
    store,      \* attendance_records: row id -> [ts, processed, errors]
    logs,       \* api_upload_logs, in insertion order
    artifacts,  \* number of export artifacts written
    runNo,      \* number of upload runs started
    run         \* the upload run in progress or last finished

uploadVars == <<store, logs, artifacts, runNo, run>>

(***************************************************************************)
(* The last call made on the attendance repository (its arguments and the  *)
(* store it found), kept for the properties of the repository functions.   *)
(***************************************************************************)
VARIABLES
    lastCall,
    saving      \* the save_records call of each thread: [pc, records, next_uid, before]

repoVars == <<lastCall, saving>>

(***************************************************************************)
(* The attendance device as DeviceService sees it, and the last user       *)
(* import cycle (what it read and what it pushed), kept for the properties *)
(* of the import.                                                          *)
(***************************************************************************)
VARIABLES
    device,     \* [reachable, conn, log, users]
    lastImport

deviceVars == <<device, lastImport>>

(***************************************************************************)
(* The remote's imports as far as the orchestrator's calls leave them      *)
(* behind: the jobs submitted so far and, of those, the jobs whose import  *)
(* had not reached a terminal status when the call that submitted them     *)
(* returned, each with the records of its export batch.                    *)
(***************************************************************************)
VARIABLES
    remote      \* [submitted, outstanding]

remoteVars == <<remote>>

vars == <<schedVars, uploadVars, repoVars, deviceVars, remoteVars>>

\* Config defaults of the domain model
DefaultConfig ==
    [collection_interval |-> 60, upload_interval |-> 1, import_interval |-> 12]

\* names used with register_job: one the application registers, whose interval
\* comes from Config, and one that has no Config mapping
JobNames == {"attendance_upload", "custom"}

\* explicit intervals passed by callers
Intervals == {2}

\* interval units passed by callers; "weeks" is one schedule_job does not know
Units == {"minutes", "weeks"}

\* length of one unit in minutes, the resolution of the model's clock
UnitMinutes(u) ==
    CASE u = "minutes" -> 1
      [] u = "hours"   -> 60
      [] u = "days"    -> 1440
      [] OTHER         -> 0

Threads == 1..MaxThreads

\* a ScheduledJob as built by its constructor
ScheduledJob(interval, unit) ==
    [interval |-> interval, interval_unit |-> unit, enabled |-> TRUE,
     last_run |-> NoRun, job |-> NoHandle]

\* schedule.every(interval).<unit>.do(task): a new entry due one period from now.
\* Returns the schedule and the handle stored in job.job.
ScheduleEntry(id, name, j) ==
    [id |-> id, name |-> name,
     period |-> j.interval * UnitMinutes(j.interval_unit),
     remaining |-> j.interval * UnitMinutes(j.interval_unit)]

KnownUnit(u) == u \in {"minutes", "hours", "days"}

\* SchedulerService.schedule_job applied to job `name` of registry js:
\* the registry, the schedule and the entry counter after the call
schedule_job(js, sc, nid, name) ==
    IF KnownUnit(js[name].interval_unit)
    THEN [jobs |-> [js EXCEPT ![name].job = nid],
          sched |-> sc \cup {ScheduleEntry(nid, name, js[name])},
          nextId |-> nid + 1]
    ELSE [jobs |-> js, sched |-> sc, nextId |-> nid]

\* schedule.cancel_job(handle): removes the entry if it is in the schedule
cancel_job(sc, handle) == {e \in sc : e.id # handle}

Registered == DOMAIN jobs

\* no run_job_now call made yet
NoManual == [pc |-> "idle", name |-> None, executed |-> 0, returned |-> FALSE]

SchedInit ==
    /\ config = {}
    /\ jobs = << >>
    /\ running = FALSE
    /\ sched = {}
    /\ nextId = 1
    /\ thr = [t \in Threads |-> [pc |-> "unborn", queue |-> {}, cur |-> {}]]
    /\ nthreads = 0
    /\ ncalls = 0
    /\ manual = NoManual

(***************************************************************************)
(* Public surface of SchedulerService.  Every call is one action; calls    *)
(* are made by the host process (main thread), one at a time.              *)
(***************************************************************************)
\* and no call is made while a run_job_now call is executing its task
CallBudget == ncalls < MaxCalls /\ manual.pc = "idle"

\* every name is given the collection interval
ConfigInterval_Collection(cfg, name) ==
    LET row == CHOOSE c \in cfg : TRUE
    IN  CASE name \in {"attendance_collection", "attendance_upload", "user_import"}
               -> row.collection_interval
          [] OTHER -> NoInterval

\* the interval register_job resolves from Config for a job name, None when the
\* name has no mapping
ConfigInterval(cfg, name) ==
    LET row == CHOOSE c \in cfg : TRUE
    IN  CASE name = "attendance_collection" -> row.collection_interval
          [] name = "attendance_upload"     -> row.upload_interval
          [] name = "user_import"           -> row.import_interval
          [] OTHER                          -> NoInterval

\* the registry after register_job(name, task, interval, interval_unit)
RegisterResult(js, cfg, name, interval, unit) ==
    IF interval = NoInterval
    THEN IF cfg = {} \/ ConfigInterval(cfg, name) = NoInterval
         THEN js
         ELSE (name :> ScheduledJob(ConfigInterval(cfg, name), "minutes")) @@ js
    ELSE (name :> ScheduledJob(interval, unit)) @@ js

\* ConfigRepository.save_config on a store without a config row: the host's
\* configuration form inserts the row
save_config ==
    /\ config = {}
    /\ config' = {DefaultConfig}
    /\ UNCHANGED <<jobs, running, sched, nextId, thr, nthreads, ncalls>>
    /\ UNCHANGED <<manual, uploadVars, repoVars, deviceVars, remoteVars>>

register_job(name, interval, unit) ==
    /\ CallBudget
    /\ jobs' = RegisterResult(jobs, config, name, interval, unit)
    /\ ncalls' = ncalls + 1
    /\ UNCHANGED <<config, running, sched, nextId, thr, nthreads>>
    /\ UNCHANGED <<manual, uploadVars, repoVars, deviceVars, remoteVars>>

\* every job of the registry is scheduled, enabled or not
RECURSIVE ScheduleAll_IgnoreEnabled(_, _, _, _)
ScheduleAll_IgnoreEnabled(js, sc, nid, names) ==
    IF names = {}
    THEN [jobs |-> js, sched |-> sc, nextId |-> nid]
    ELSE LET n == CHOOSE x \in names : TRUE
             r == schedule_job(js, sc, nid, n)
         IN  ScheduleAll_IgnoreEnabled(r.jobs, r.sched, r.nextId, names \ {n})

\* the loop of start(): schedule_job for every enabled job of the registry
RECURSIVE ScheduleAll(_, _, _, _)
ScheduleAll(js, sc, nid, names) ==
    IF names = {}
    THEN [jobs |-> js, sched |-> sc, nextId |-> nid]
    ELSE LET n == CHOOSE x \in names : TRUE
             r == IF js[n].enabled
                  THEN schedule_job(js, sc, nid, n)
                  ELSE [jobs |-> js, sched |-> sc, nextId |-> nid]
         IN  ScheduleAll(r.jobs, r.sched, r.nextId, names \ {n})

\* start() while running: logged no-op
start_running ==
    /\ CallBudget
    /\ running
    /\ ncalls' = ncalls + 1
    /\ UNCHANGED <<config, jobs, running, sched, nextId, thr, nthreads>>
    /\ UNCHANGED <<manual, uploadVars, repoVars, deviceVars, remoteVars>>

\* start() while stopped: clear, schedule the enabled jobs, spawn the loop thread
start ==
    /\ CallBudget
    /\ ~running
    /\ nthreads < MaxThreads
    /\ LET r == ScheduleAll(jobs, {}, nextId, Registered)
       IN  /\ r.nextId <= MaxEntries + 1
           /\ jobs' = r.jobs
           /\ sched' = r.sched
           /\ nextId' = r.nextId
    /\ running' = TRUE
    /\ nthreads' = nthreads + 1
    /\ thr' = [thr EXCEPT ![nthreads + 1].pc = "check"]
    /\ ncalls' = ncalls + 1
    /\ UNCHANGED config
    /\ UNCHANGED <<manual, uploadVars, repoVars, deviceVars, remoteVars>>

\* a loop thread is busy when it is inside run_pending with a job in progress
\* or still to run
Busy(t) == thr[t].pc \in {"pending", "exec"}

\* stop() while stopped: logged no-op
stop_stopped ==
    /\ CallBudget
    /\ ~running
    /\ ncalls' = ncalls + 1
    /\ UNCHANGED <<config, jobs, running, sched, nextId, thr, nthreads>>
    /\ UNCHANGED <<manual, uploadVars, repoVars, deviceVars, remoteVars>>

\* stop(): running := False, schedule.clear(), join(timeout=2.0).  A thread
\* that is in its 1-second sleep sees the flag and exits within the join; a
\* thread inside run_pending is not interrupted and the join may time out.
stop ==
    /\ CallBudget
    /\ running
    /\ running' = FALSE
    /\ sched' = {}
    /\ thr' = [t \in Threads |->
                 IF thr[t].pc = "check" THEN [thr[t] EXCEPT !.pc = "exited"]
                                        ELSE thr[t]]
    /\ ncalls' = ncalls + 1
    /\ UNCHANGED <<config, jobs, nextId, nthreads>>
    /\ UNCHANGED <<manual, uploadVars, repoVars, deviceVars, remoteVars>>

\* update_job_interval(name, interval, interval_unit); unit = None keeps the unit
UpdateResult(js, sc, nid, isRunning, name, interval, unit) ==
    IF name \notin DOMAIN js
    THEN [jobs |-> js, sched |-> sc, nextId |-> nid]
    ELSE LET j1 == [js EXCEPT ![name].interval = interval,
                              ![name].interval_unit =
                                  IF unit # None THEN unit ELSE @]
         IN  IF isRunning /\ j1[name].enabled
             THEN schedule_job(j1, cancel_job(sc, j1[name].job), nid, name)
             ELSE [jobs |-> j1, sched |-> sc, nextId |-> nid]

update_job_interval(name, interval, unit) ==
    /\ CallBudget
    /\ LET r == UpdateResult(jobs, sched, nextId, running, name, interval, unit)
       IN  /\ r.nextId <= MaxEntries + 1
           /\ jobs' = r.jobs
           /\ sched' = r.sched
           /\ nextId' = r.nextId
    /\ ncalls' = ncalls + 1
    /\ UNCHANGED <<config, running, thr, nthreads>>
    /\ UNCHANGED <<manual, uploadVars, repoVars, deviceVars, remoteVars>>

\* enable_job(name, enabled)
EnableResult(js, sc, nid, isRunning, name, enabled) ==
    IF name \notin DOMAIN js
    THEN [jobs |-> js, sched |-> sc, nextId |-> nid]
    ELSE LET j1 == [js EXCEPT ![name].enabled = enabled]
         IN  IF ~isRunning
             THEN [jobs |-> j1, sched |-> sc, nextId |-> nid]
             ELSE IF enabled /\ j1[name].job = NoHandle
             THEN schedule_job(j1, sc, nid, name)
             ELSE IF ~enabled /\ j1[name].job # NoHandle
             THEN [jobs |-> [j1 EXCEPT ![name].job = NoHandle],
                   sched |-> cancel_job(sc, j1[name].job),
                   nextId |-> nid]
             ELSE [jobs |-> j1, sched |-> sc, nextId |-> nid]

enable_job(name, enabled) ==
    /\ CallBudget
    /\ LET r == EnableResult(jobs, sched, nextId, running, name, enabled)
       IN  /\ r.nextId <= MaxEntries + 1
           /\ jobs' = r.jobs
           /\ sched' = r.sched
           /\ nextId' = r.nextId
    /\ ncalls' = ncalls + 1
    /\ UNCHANGED <<config, running, thr, nthreads>>
    /\ UNCHANGED <<manual, uploadVars, repoVars, deviceVars, remoteVars>>

(***************************************************************************)
(* Time and the loop threads.                                              *)
(***************************************************************************)
\* entries whose next_run has been reached (Job.should_run)
Due(sc) == {e \in sc : e.remaining = 0}

\* Time passes until the next entry becomes due; entries already due stay due.
AdvanceTime ==
    /\ \E e \in sched : e.remaining > 0
    /\ LET pos == {e.remaining : e \in {x \in sched : x.remaining > 0}}
           d == CHOOSE m \in pos : \A k \in pos : m <= k
       IN  sched' = {[e EXCEPT !.remaining = IF @ > d THEN @ - d ELSE 0] : e \in sched}
    /\ UNCHANGED <<config, jobs, running, nextId, thr, nthreads, ncalls>>
    /\ UNCHANGED <<manual, uploadVars, repoVars, deviceVars, remoteVars>>

\* _run_scheduler, `while self.running` false: the thread returns
LoopExit(t) ==
    /\ thr[t].pc = "check"
    /\ ~running
    /\ thr' = [thr EXCEPT ![t].pc = "exited"]
    /\ UNCHANGED <<config, jobs, running, sched, nextId, nthreads, ncalls>>
    /\ UNCHANGED <<manual, uploadVars, repoVars, deviceVars, remoteVars>>

\* _run_scheduler, `while self.running` true: schedule.run_pending() takes the
\* list of the entries that are due now (a tick with nothing due changes nothing)
LoopTick(t) ==
    /\ thr[t].pc = "check"
    /\ running
    /\ Due(sched) # {}
    /\ thr' = [thr EXCEPT ![t].pc = "pending",
                          ![t].queue = {[id |-> e.id, name |-> e.name,
                                         period |-> e.period] : e \in Due(sched)}]
    /\ UNCHANGED <<config, jobs, running, sched, nextId, nthreads, ncalls>>
    /\ UNCHANGED <<manual, uploadVars, repoVars, deviceVars, remoteVars>>

\* run_pending calls the task of the next entry of its list, whether or not the
\* entry is still in the schedule
JobBegin(t) ==
    /\ thr[t].pc = "pending"
    /\ \E e \in thr[t].queue :
          thr' = [thr EXCEPT ![t].pc = "exec", ![t].cur = {e},
                             ![t].queue = @ \ {e}]
    /\ UNCHANGED <<config, jobs, running, sched, nextId, nthreads, ncalls>>
    /\ UNCHANGED <<manual, uploadVars, repoVars, deviceVars, remoteVars>>

\* where the thread goes after a job: the next entry of the list, or the sleep
\* and the next test of `running`
AfterJob(q) == IF q = {} THEN "check" ELSE "pending"

\* the task returns: the entry is given its next run time
JobEnd(t) ==
    /\ thr[t].pc = "exec"
    /\ sched' = {IF e.id \in {c.id : c \in thr[t].cur} THEN [e EXCEPT !.remaining = e.period]
                                         ELSE e : e \in sched}
    /\ thr' = [thr EXCEPT ![t].pc = AfterJob(thr[t].queue), ![t].cur = {}]
    /\ UNCHANGED <<config, jobs, running, nextId, nthreads, ncalls>>
    /\ UNCHANGED <<manual, uploadVars, repoVars, deviceVars, remoteVars>>

\* where the thread goes when the task raises: nothing between the task and
\* the thread's target catches, so _run_scheduler is left by the exception
AfterRaise(q) == "crashed"

\* the task raises
JobRaise(t) ==
    /\ thr[t].pc = "exec"
    /\ thr' = [thr EXCEPT ![t].pc = AfterRaise(thr[t].queue), ![t].cur = {},
                          ![t].queue = {}]
    /\ UNCHANGED <<config, jobs, running, sched, nextId, nthreads, ncalls>>
    /\ UNCHANGED <<manual, uploadVars, repoVars, deviceVars, remoteVars>>

\* get_job_status(name): the fields of the report the model keeps
get_job_status(js, name) ==
    [interval |-> js[name].interval, interval_unit |-> js[name].interval_unit,
     enabled |-> js[name].enabled, last_run |-> js[name].last_run,
     scheduled |-> js[name].job # NoHandle]

(***************************************************************************)
(* run_job_now: the caller's thread executes the task itself; the loop     *)
(* threads go on meanwhile.                                                *)
(***************************************************************************)
\* last_run is set whether or not the task raised
AfterTask_Always(js, name, raises, now) ==
    [js EXCEPT ![name].last_run = now]

\* the registry when the task of run_job_now has ended: last_run = time.time()
\* unless the task raised
AfterTask(js, name, raises, now) ==
    IF raises THEN js ELSE [js EXCEPT ![name].last_run = now]

\* run_job_now(name) up to the call of the task: an unknown name returns False
run_job_now(name) ==
    /\ CallBudget
    /\ manual' = IF name \in Registered
                 THEN [pc |-> "exec", name |-> name, executed |-> 1, returned |-> FALSE]
                 ELSE [pc |-> "idle", name |-> name, executed |-> 0, returned |-> FALSE]
    /\ ncalls' = ncalls + 1
    /\ UNCHANGED <<config, jobs, running, sched, nextId, thr, nthreads>>
    /\ UNCHANGED <<uploadVars, repoVars, deviceVars, remoteVars>>

\* the task returns or raises, and run_job_now returns; the time of the call
\* stands for time.time()
run_job_now_return(raises) ==
    /\ manual.pc = "exec"
    /\ jobs' = AfterTask(jobs, manual.name, raises, ncalls)
    /\ manual' = [manual EXCEPT !.pc = "idle", !.returned = ~raises]
    /\ UNCHANGED <<config, running, sched, nextId, thr, nthreads, ncalls>>
    /\ UNCHANGED <<uploadVars, repoVars, deviceVars, remoteVars>>

SchedNext ==
    \/ save_config
    \/ \E n \in JobNames : run_job_now(n)
    \/ \E raises \in BOOLEAN : run_job_now_return(raises)
    \/ \E n \in JobNames, i \in Intervals \cup {NoInterval}, u \in Units :
          register_job(n, i, u)
    \/ start
    \/ start_running
    \/ stop
    \/ stop_stopped
    \/ \E n \in JobNames, i \in Intervals, u \in Units \cup {None} :
          update_job_interval(n, i, u)
    \/ \E n \in JobNames, b \in BOOLEAN : enable_job(n, b)
    \/ AdvanceTime
    \/ \E t \in Threads : LoopExit(t)
    \/ \E t \in Threads : LoopTick(t)
    \/ \E t \in Threads : JobBegin(t)
    \/ \E t \in Threads : JobEnd(t)
    \/ \E t \in Threads : JobRaise(t)


(***************************************************************************)
(* The record store, the remote API and the upload run.                    *)
(***************************************************************************)
\* records the collection may insert
MaxRec == 2
\* upload runs started
MaxRuns == 1
\* records in one device log
MaxBatch == 2
\* entries of the remote employee directory
MaxEmp == 2
\* calls of upload_attendance_to_api that export a batch
MaxUploads == 2

\* the bound of the poll loop, in seconds (timedelta(seconds=30))
Timeout == 30
\* the sleep of one non-terminal poll, in seconds (time.sleep(2))
PollSleep == 2
\* the first uid save_records and save_record assign
UidBase == 2000000
\* a record without a uid (`not record.uid`)
NoUid == 0
\* an employee entry without an id (`not emp_id`) or without a code (`not code`)
NoId == 0
NoCode == ""

\* the ids of the rows of the store
RecIds == 1..MaxRec

\* event times; one more than the store can hold, so that the remote can name
\* a timestamp no local record has
TsValues == 1..(MaxRec + 1)

\* a timestamp string: the event time and the separator between date and time
\* ("2024-01-01 08:00:00" locally, possibly "2024-01-01T08:00:00" remotely)
LocalTs(t) == [t |-> t, sep |-> " "]

\* the list get_pointings_with_job_id returns for the event times T: the remote
\* writes all its timestamps with the same separator
RemoteTsList(T, sep) == {[t |-> t, sep |-> sep] : t \in T}

\* the timestamp is compared as the remote wrote it
FormatTs_AsReceived(ts) == ts

\* ts.replace("T", " ")
FormatTs(ts) == [ts EXCEPT !.sep = " "]

\* error lists of a failed-lines entry; << >> stands for an empty or missing list
ErrLists == {<< >>, <<"E1">>, <<"E2", "E3">>}

\* the ids (AUTOINCREMENT) of the rows of store st
StoreIds(st) == 1..Len(st)

\* get_records(processed_status): the ids of the rows with that status
get_records(st, status) == {i \in StoreIds(st) : st[i].processed = status}

\* get_unprocessed_records
get_unprocessed_records(st) == get_records(st, "UNPROCESSED")

\* INSERT OR REPLACE: a row in conflict is written over by the new one
save_record_ignore_Replace(st, rec) ==
    IF \E i \in StoreIds(st) : st[i].uid = rec.uid \/ st[i].ts = rec.ts
    THEN [i \in StoreIds(st) |->
             IF st[i].uid = rec.uid \/ st[i].ts = rec.ts
             THEN [uid |-> rec.uid, ts |-> rec.ts,
                   processed |-> "UNPROCESSED", errors |-> << >>]
             ELSE st[i]]
    ELSE Append(st, [uid |-> rec.uid, ts |-> rec.ts,
                     processed |-> "UNPROCESSED", errors |-> << >>])

\* one INSERT OR IGNORE of save_records: the row is dropped when it violates a
\* UNIQUE constraint of attendance_records, on uid or on timestamp
save_record_ignore(st, rec) ==
    IF \E i \in StoreIds(st) : st[i].uid = rec.uid \/ st[i].ts = rec.ts
    THEN st
    ELSE Append(st, [uid |-> rec.uid, ts |-> rec.ts,
                     processed |-> "UNPROCESSED", errors |-> << >>])

\* SELECT MAX(uid) FROM attendance_records; 0 stands for the None of an empty table
MaxUid(st) ==
    IF st = << >> THEN 0
    ELSE CHOOSE u \in {st[i].uid : i \in StoreIds(st)} :
             \A i \in StoreIds(st) : st[i].uid <= u

\* next_uid = max_uid + 1 if max_uid and max_uid > 2000000 else 2000000
FirstUid(st) == IF MaxUid(st) # 0 /\ MaxUid(st) > UidBase THEN MaxUid(st) + 1 ELSE UidBase

\* every record of the batch gets the same uid
RECURSIVE AssignUids_NoIncrement(_, _)
AssignUids_NoIncrement(records, next_uid) ==
    IF records = << >> THEN << >>
    ELSE <<IF Head(records).uid = NoUid
           THEN [Head(records) EXCEPT !.uid = next_uid] ELSE Head(records)>>
         \o AssignUids_NoIncrement(Tail(records), next_uid)

\* the loop of save_records as far as it assigns uids: a record without a uid
\* takes next_uid, which is then incremented
RECURSIVE AssignUids(_, _)
AssignUids(records, next_uid) ==
    IF records = << >> THEN << >>
    ELSE IF Head(records).uid = NoUid
    THEN <<[Head(records) EXCEPT !.uid = next_uid]>>
         \o AssignUids(Tail(records), next_uid + 1)
    ELSE <<Head(records)>> \o AssignUids(Tail(records), next_uid)

\* the inserts of save_records, in batch order
RECURSIVE InsertAll(_, _)
InsertAll(st, records) ==
    IF records = << >> THEN st
    ELSE InsertAll(save_record_ignore(st, Head(records)), Tail(records))

\* save_records(records)
save_records(st, records) ==
    IF records = << >> THEN st
    ELSE InsertAll(st, AssignUids(records, FirstUid(st)))

\* the punch with event time t as get_attendance_records returns it, under the
\* uid the device reports
Punch(uid, t) == [uid |-> uid, ts |-> LocalTs(t)]

\* the rows an UPDATE ... WHERE timestamp IN (formatted timestamps) touches
RowsByTimestamps(st, timestamps) ==
    {i \in StoreIds(st) : st[i].ts \in {FormatTs(ts) : ts \in timestamps}}

\* the UPDATE sets the status and leaves the errors
mark_records_by_timestamps_KeepErrors(st, timestamps, status) ==
    [i \in StoreIds(st) |->
        IF i \in RowsByTimestamps(st, timestamps)
        THEN [st[i] EXCEPT !.processed = status] ELSE st[i]]

\* a row that already has the status is set back to UNPROCESSED
mark_records_by_timestamps_Toggle(st, timestamps, status) ==
    [i \in StoreIds(st) |->
        IF i \in RowsByTimestamps(st, timestamps)
        THEN [st[i] EXCEPT !.processed = IF @ = status THEN "UNPROCESSED" ELSE status,
                           !.errors = << >>]
        ELSE st[i]]

\* mark_records_by_timestamps(timestamps, status)
mark_records_by_timestamps(st, timestamps, status) ==
    IF timestamps = {}
    THEN st
    ELSE [i \in StoreIds(st) |->
            IF i \in RowsByTimestamps(st, timestamps)
            THEN [st[i] EXCEPT !.processed = status, !.errors = << >>]
            ELSE st[i]]

\* the UPDATE sets the status and leaves the errors
mark_record_error_StatusOnly(st, id, errors) ==
    [i \in StoreIds(st) |->
        IF i = id THEN [st[i] EXCEPT !.processed = "ERROR"] ELSE st[i]]

\* mark_record_error(record_id, errors)
mark_record_error(st, id, errors) ==
    [i \in StoreIds(st) |->
        IF i = id THEN [st[i] EXCEPT !.processed = "ERROR", !.errors = errors]
                  ELSE st[i]]

\* the APIUploadLog row log_api_upload builds from log_data
UploadLog(batch, count, status, job, processed) ==
    [batch_id |-> batch, records_count |-> count, status |-> status,
     jobExecutionId |-> job, processed |-> processed]

\* no row is written
log_api_upload_Dropped(lg, row, ok) == lg

\* AttendanceService.log_api_upload: the row is appended unless the store write
\* fails; the failure is logged and swallowed
log_api_upload(lg, row, ok) == IF ok THEN Append(lg, row) ELSE lg

\* every UNPROCESSED record is marked, accepted or not
mark_records_processed_by_timestamps_WholeBatch(st, timestamps, ok) ==
    [i \in StoreIds(st) |->
        IF st[i].processed = "UNPROCESSED"
        THEN [st[i] EXCEPT !.processed = "PROCESSED", !.errors = << >>]
        ELSE st[i]]

\* AttendanceService.mark_records_processed_by_timestamps: the store after the
\* call; a failed write is swallowed and leaves the store as it was
mark_records_processed_by_timestamps(st, timestamps, ok) ==
    IF ok THEN mark_records_by_timestamps(st, timestamps, "PROCESSED") ELSE st

\* the test looks at the record id only
NamesRecord_IdOnly(id, errors) == id # 0

\* the `if record_id and errors` test of _process_error_records
NamesRecord(id, errors) == id # 0 /\ errors # << >>

\* one iteration of the loop of _process_error_records
process_error_record(st, id, errors) ==
    IF NamesRecord(id, errors) THEN mark_record_error(st, id, errors) ELSE st

\* the process_count assigned on COMPLETED: len(attendance_records) when the
\* list is not empty
ProcessedCount(timestamps) == Cardinality(timestamps)

\* the reconciler is invoked on every COMPLETED
NeedsReconcile_Always(timestamps, records) == TRUE

\* the test that decides whether COMPLETED invokes _process_error_records
NeedsReconcile(timestamps, records) == Cardinality(timestamps) # Cardinality(records)

\* the `while datetime.now() < end_time` test
WithinTimeout(elapsed) == elapsed < Timeout

\* the sleep does not advance the time
AfterSleep_NoAdvance(elapsed) == elapsed

\* the time after one non-terminal poll: time.sleep(2)
AfterSleep(elapsed) == elapsed + PollSleep

\* the dictionary reports a failure
RunResult_Failed(processed_count) == [success |-> FALSE, processed |-> processed_count]

\* the dictionary upload_attendance_to_api returns after _process_upload_job
RunResult(processed_count) == [success |-> TRUE, processed |-> processed_count]

\* the dictionary upload_attendance_to_api returns on its failure paths
FailedResult == [success |-> FALSE, processed |-> 0]

\* no result yet: the run has not returned
NoResult == [success |-> FALSE, processed |-> -1]

\* The upload run.  Locals of upload_attendance_to_api and _process_upload_job:
\* pc (position), batch (records), job (job_execution_id), polled (job_id),
\* elapsed (datetime.now() - start of the poll loop), count (processed_count),
\* mode (the terminal branch taken).  What the run has seen and done, kept for
\* the properties: status (the last status polled), accepted (the event times
\* of the accepted timestamps), named (per record id, the error list of the
\* last failed-lines entry naming it), reconciled (_process_error_records was
\* invoked), raised (an exception reached the handler of the polling phase),
\* fault (a store write of the run failed), store0 and logs0 (the store and
\* the number of log rows when the run began), outcome and result.
IdleRun ==
    [pc |-> "idle", batch |-> {}, job |-> 0, polled |-> 0, elapsed |-> 0,
     status |-> "none", accepted |-> {}, count |-> 0, mode |-> "none",
     named |-> [i \in RecIds |-> << >>], result |-> NoResult, outcome |-> "none",
     fault |-> FALSE, raised |-> FALSE, reconciled |-> FALSE,
     store0 |-> << >>, logs0 |-> 0]

UploadInit ==
    /\ store = << >>
    /\ logs = << >>
    /\ artifacts = 0
    /\ runNo = 0
    /\ run = IdleRun

\* no call made yet
NoCall ==
    [kind |-> "none", before |-> << >>, records |-> << >>, timestamps |-> {},
     status |-> "none", returned |-> 0, failure |-> "none"]

\* the threads that call collect_attendance: the scheduler loop (the job
\* attendance_collection) and the UI thread (open_records)
Collectors == {"loop", "ui"}

\* no save_records call was made on the thread
NoSave == [pc |-> "idle", records |-> << >>, next_uid |-> NoUid, before |-> << >>]

RepoInit == lastCall = NoCall /\ saving = [c \in Collectors |-> NoSave]

\* DeviceService.__init__: no connection yet.  The device is on the network,
\* with an empty punch log and no user.
NoDevice ==
    [reachable |-> TRUE, conn |-> "none", log |-> << >>, users |-> {}]

\* no import cycle run yet
NoImport ==
    [employees |-> << >>, before |-> {}, saved_codes |-> {}, pushed |-> << >>,
     read |-> "none", returned |-> 0]

DeviceInit == device = NoDevice /\ lastImport = NoImport

\* nothing was ever submitted
RemoteInit == remote = [submitted |-> 0, outstanding |-> {}]

Init == SchedInit /\ UploadInit /\ RepoInit /\ DeviceInit /\ RemoteInit

(***************************************************************************)
(* Collection (as far as the upload run depends on it) and the steps of    *)
(* SyncService.upload_attendance_to_api.  Upload runs follow one another;  *)
(* inputs of the collaborators are drawn where the code reads them.        *)
(***************************************************************************)
\* collect_attendance inserts a device punch (a replay is ignored); punches
\* reach the device in the order of their event times and the device reports
\* each under its own uid.  The jobs of the loop
\* follow one another: a collection runs between two upload runs.
Collect(t) ==
    /\ run.pc = "idle"
    /\ t <= Len(store) + 1
    /\ store' = save_records(store, <<Punch(t, t)>>)
    /\ UNCHANGED <<logs, artifacts, runNo, run>>
    /\ UNCHANGED <<schedVars, repoVars, deviceVars, remoteVars>>

\* the run returns `result`
Finish(r, outcome, result) ==
    [r EXCEPT !.pc = "done", !.outcome = outcome, !.result = result,
              !.elapsed = 0]

\* upload_attendance_to_api up to the export: read the UNPROCESSED records and
\* write the artifact.  readOk: the store read succeeds; exportOk:
\* create_excel_report returns an export_info.
StartRun(readOk, exportOk) ==
    /\ run.pc = "idle"
    /\ runNo < MaxRuns
    /\ runNo' = runNo + 1
    /\ LET r0 == [IdleRun EXCEPT !.store0 = store, !.logs0 = Len(logs)]
           records == get_unprocessed_records(store)
       IN  IF ~readOk
           THEN /\ run' = Finish(r0, "read_failed", FailedResult)
                /\ UNCHANGED artifacts
           ELSE IF records = {}
           THEN /\ run' = Finish(r0, "no_records", RunResult(0))
                /\ UNCHANGED artifacts
           ELSE IF ~exportOk
           THEN /\ run' = Finish([r0 EXCEPT !.batch = records],
                                 "export_failed", FailedResult)
                /\ UNCHANGED artifacts
           ELSE /\ run' = [r0 EXCEPT !.pc = "submit", !.batch = records]
                /\ artifacts' = artifacts + 1
    /\ UNCHANGED <<store, logs>>
    /\ UNCHANGED <<schedVars, repoVars, deviceVars, remoteVars>>

\* api_service.upload_attendance and the test of response['success'].
\* resp: "ok" (a jobExecutionId is returned), "fail" (success = False) or
\* "raise" (the call raises, caught by upload_attendance_to_api).
Submit(resp, logOk) ==
    /\ run.pc = "submit"
    /\ CASE resp = "ok" ->
              /\ run' = [run EXCEPT !.pc = "poll", !.job = runNo, !.elapsed = 0]
              /\ UNCHANGED logs
         [] resp = "fail" ->
              /\ logs' = log_api_upload(logs,
                            UploadLog(runNo, Cardinality(run.batch), "FAILED", 0, 0),
                            logOk)
              /\ run' = Finish([run EXCEPT !.fault = ~logOk],
                               "submit_failed", FailedResult)
         [] OTHER ->
              /\ run' = Finish(run, "submit_raised", FailedResult)
              /\ UNCHANGED logs
    /\ UNCHANGED <<store, artifacts, runNo>>
    /\ UNCHANGED <<schedVars, repoVars, deviceVars, remoteVars>>

\* the jobExecutionId of the remote's most recent import: the job this run
\* submitted, or an import this run did not submit
ImportJobs(own) == {own, MaxRuns + 1}

\* the remote statuses; "UNKNOWN" is any other value and "missing" an absent one
Statuses == {"COMPLETED", "STARTED", "STARTING", "FAILED", "STOPPED",
             "UNKNOWN", "missing"}

\* an unrecognised or absent status is taken for a failure
StatusBranch_UnknownFails(status) ==
    CASE status = "COMPLETED"              -> "completed"
      [] status \in {"STARTED", "STARTING"} -> "sleep"
      [] OTHER                              -> "failed"

\* STOPPED is not handled: the loop keeps polling
StatusBranch_StoppedPolls(status) ==
    CASE status = "COMPLETED" -> "completed"
      [] status = "FAILED"    -> "failed"
      [] OTHER                -> "sleep"

\* the branch of the if/elif chain of _process_upload_job a status takes
StatusBranch(status) ==
    CASE status = "COMPLETED"              -> "completed"
      [] status \in {"STARTED", "STARTING"} -> "sleep"
      [] status \in {"FAILED", "STOPPED"}   -> "failed"
      [] OTHER                              -> "sleep"

\* the value _process_upload_job returns, and upload_attendance_to_api reports,
\* when its `except Exception` catches
PollExceptionResult == RunResult(0)

\* the job id the COMPLETED branch uses:
\* pointing_import.get('jobExecutionId', job_execution_id); get_pointing_import
\* always fills the key, so the default never applies
PolledJobId(importJob, submittedJob) == importJob

\* the while test fails: "Timeout reached", return 0
PollTimeout ==
    /\ run.pc = "poll"
    /\ ~WithinTimeout(run.elapsed)
    /\ run' = Finish(run, "timeout", RunResult(0))
    /\ UNCHANGED <<store, logs, artifacts, runNo>>
    /\ UNCHANGED <<schedVars, repoVars, deviceVars, remoteVars>>

\* get_pointing_import raises: _process_upload_job's handler returns 0
PollRaise ==
    /\ run.pc = "poll"
    /\ WithinTimeout(run.elapsed)
    /\ run' = Finish([run EXCEPT !.raised = TRUE], "poll_exception", PollExceptionResult)
    /\ UNCHANGED <<store, logs, artifacts, runNo>>
    /\ UNCHANGED <<schedVars, repoVars, deviceVars, remoteVars>>

\* one iteration of the poll loop.  status: the status of the most recent import
\* ("missing" also when the HTTP call fails and {} is returned); importJob: its
\* jobExecutionId (0 when absent).
Poll(status, importJob, logOk) ==
    /\ run.pc = "poll"
    /\ WithinTimeout(run.elapsed)
    /\ CASE StatusBranch(status) = "completed" ->
              /\ run' = [run EXCEPT !.pc = "fetch", !.status = status,
                                    !.polled = PolledJobId(importJob, run.job),
                                    !.elapsed = 0]
              /\ UNCHANGED logs
         [] StatusBranch(status) = "failed" ->
              /\ logs' = log_api_upload(logs,
                            UploadLog(runNo, Cardinality(run.batch), "FAILED", 0, 0),
                            logOk)
              /\ run' = [run EXCEPT !.pc = "reconcile", !.status = status,
                                    !.mode = "failed", !.reconciled = TRUE,
                                    !.fault = ~logOk, !.elapsed = 0]
         [] OTHER ->
              /\ run' = [run EXCEPT !.status = status, !.elapsed = AfterSleep(@)]
              /\ UNCHANGED logs
    /\ UNCHANGED <<store, artifacts, runNo>>
    /\ UNCHANGED <<schedVars, repoVars, deviceVars, remoteVars>>

\* get_pointings_with_job_id raises: _process_upload_job's handler returns 0
FetchRaise ==
    /\ run.pc = "fetch"
    /\ run' = Finish([run EXCEPT !.raised = TRUE], "poll_exception", PollExceptionResult)
    /\ UNCHANGED <<store, logs, artifacts, runNo>>
    /\ UNCHANGED <<schedVars, repoVars, deviceVars, remoteVars>>

\* the COMPLETED branch up to the test for errors.  T: the event times of the
\* list get_pointings_with_job_id returns (empty also when the HTTP call
\* fails), sep: the separator the remote writes them with.
FetchAccepted(T, sep, markOk) ==
    /\ run.pc = "fetch"
    /\ store' = mark_records_processed_by_timestamps(store, RemoteTsList(T, sep), markOk)
    /\ run' = [run EXCEPT
                 !.pc = IF NeedsReconcile(RemoteTsList(T, sep), run.batch)
                        THEN "reconcile" ELSE "log",
                 !.reconciled = NeedsReconcile(RemoteTsList(T, sep), run.batch),
                 !.mode = "completed",
                 !.accepted = T,
                 !.count = ProcessedCount(RemoteTsList(T, sep)),
                 !.fault = (T # {} /\ ~markOk)]
    /\ UNCHANGED <<logs, artifacts, runNo>>
    /\ UNCHANGED <<schedVars, repoVars, deviceVars, remoteVars>>

\* one entry {recordId, errors} of the failed-lines response (recordId 0: absent)
ReconcileEntry(id, errors) ==
    /\ run.pc = "reconcile"
    /\ store' = process_error_record(store, id, errors)
    /\ run' = [run EXCEPT
                 !.named = IF NamesRecord(id, errors) THEN [@ EXCEPT ![id] = errors] ELSE @]
    /\ UNCHANGED <<logs, artifacts, runNo>>
    /\ UNCHANGED <<schedVars, repoVars, deviceVars, remoteVars>>

\* the failed-lines response is exhausted (at once when the fetch fails):
\* _process_error_records returns
ReconcileEnd ==
    /\ run.pc = "reconcile"
    /\ run' = IF run.mode = "failed"
              THEN Finish(run, "failed", RunResult(0))
              ELSE [run EXCEPT !.pc = "log"]
    /\ UNCHANGED <<store, logs, artifacts, runNo>>
    /\ UNCHANGED <<schedVars, repoVars, deviceVars, remoteVars>>

\* the COMPLETED branch after the test for errors: log SUCCESS, return the count
LogSuccess(logOk) ==
    /\ run.pc = "log"
    /\ logs' = log_api_upload(logs,
                  UploadLog(runNo, Cardinality(run.batch), "SUCCESS",
                            run.polled, run.count),
                  logOk)
    /\ run' = Finish([run EXCEPT !.fault = @ \/ ~logOk],
                     "completed", RunResult(run.count))
    /\ UNCHANGED <<store, artifacts, runNo>>
    /\ UNCHANGED <<schedVars, repoVars, deviceVars, remoteVars>>

\* the caller has the result: the run is over
Return ==
    /\ run.pc = "done"
    /\ run' = IdleRun
    /\ UNCHANGED <<store, logs, artifacts, runNo>>
    /\ UNCHANGED <<schedVars, repoVars, deviceVars, remoteVars>>

\* the steps of the thread that executes the upload run, the entries of a
\* failed-lines response apart
RunStep ==
    \/ \E resp \in {"ok", "fail", "raise"}, logOk \in BOOLEAN : Submit(resp, logOk)
    \/ PollTimeout
    \/ PollRaise
    \/ \E status \in Statuses, j \in ImportJobs(runNo), logOk \in BOOLEAN :
          Poll(status, j, logOk)
    \/ FetchRaise
    \/ \E T \in SUBSET TsValues, sep \in {"T", " "}, markOk \in BOOLEAN :
          FetchAccepted(T, sep, markOk)
    \/ ReconcileEnd
    \/ \E logOk \in BOOLEAN : LogSuccess(logOk)
    \/ Return

UploadNext ==
    \/ \E t \in RecIds : Collect(t)
    \/ \E readOk \in BOOLEAN, exportOk \in BOOLEAN : StartRun(readOk, exportOk)
    \/ \E id \in 0..MaxRec, e \in ErrLists : ReconcileEntry(id, e)
    \/ RunStep

(***************************************************************************)
(* Calls on the attendance repository with arguments drawn from bounded    *)
(* sets: a collection over a device log, and the two marking functions.     *)
(***************************************************************************)
\* the uids a device reports; NoUid for a record that arrives without one
DeviceUids == {NoUid, 1}

\* the records get_attendance_records may return in one read
DeviceRecords == {Punch(u, t) : u \in DeviceUids, t \in RecIds}

\* the device logs of at most MaxBatch records
Batches == UNION {[1..n -> DeviceRecords] : n \in 0..MaxBatch}

\* the values of ProcessedStatus
ProcessedStatus == {"UNPROCESSED", "PROCESSED", "ERROR"}

\* collect_attendance over the device log `records`: save_records when the log
\* is not empty
collect_attendance(records) ==
    /\ store' = save_records(store, records)
    /\ UNCHANGED saving
    /\ lastCall' = [NoCall EXCEPT !.kind = "save", !.before = store,
                                  !.records = records,
                                  !.returned = Len(records)]
    /\ UNCHANGED <<logs, artifacts, runNo, run>>
    /\ UNCHANGED <<schedVars, deviceVars, remoteVars>>

\* a call of the repository's mark_records_by_timestamps with the timestamps
\* of the event times T written with separator sep
MarkByTimestamps(T, sep, status) ==
    /\ store' = mark_records_by_timestamps(store, RemoteTsList(T, sep), status)
    /\ UNCHANGED saving
    /\ lastCall' = [NoCall EXCEPT !.kind = "mark", !.before = store,
                                  !.timestamps = RemoteTsList(T, sep),
                                  !.status = status]
    /\ UNCHANGED <<logs, artifacts, runNo, run>>
    /\ UNCHANGED <<schedVars, deviceVars, remoteVars>>

\* a call of the repository's mark_record_error
MarkError(id, errors) ==
    /\ store' = mark_record_error(store, id, errors)
    /\ UNCHANGED saving
    /\ lastCall' = [NoCall EXCEPT !.kind = "error", !.before = store]
    /\ UNCHANGED <<logs, artifacts, runNo, run>>
    /\ UNCHANGED <<schedVars, deviceVars, remoteVars>>

(***************************************************************************)
(* save_records on two threads.  Each call opens its own connection, reads *)
(* MAX(uid) with a SELECT outside any transaction and then runs its        *)
(* INSERT OR IGNORE statements in one transaction, which holds the write   *)
(* lock of the database file until the commit: the inserts of one call are *)
(* one step, the read before them is another.                              *)
(***************************************************************************)
\* the device logs of at most MaxBatch punches that arrive without a uid, in
\* the order of their event times; the two threads may read different logs
\* (punches arrive and the log of the device is cleared between the reads)
UidlessBatches ==
    {records \in UNION {[1..n -> {Punch(NoUid, t) : t \in TsValues}] : n \in 1..MaxBatch} :
        \A k \in DOMAIN records : k > 1 => records[k - 1].ts.t < records[k].ts.t}

\* save_records(records) up to `next_uid = ...`
save_records_read(c, records) ==
    /\ saving[c].pc # "read"
    /\ saving' = [saving EXCEPT ![c] = [pc |-> "read", records |-> records,
                                        next_uid |-> FirstUid(store),
                                        before |-> store]]
    /\ UNCHANGED <<lastCall, uploadVars>>
    /\ UNCHANGED <<schedVars, deviceVars, remoteVars>>

\* the loop of save_records and the commit, with the next_uid read before
save_records_insert(c) ==
    /\ saving[c].pc = "read"
    /\ store' = InsertAll(store, AssignUids(saving[c].records, saving[c].next_uid))
    /\ saving' = [saving EXCEPT ![c].pc = "done"]
    /\ UNCHANGED <<lastCall, logs, artifacts, runNo, run>>
    /\ UNCHANGED <<schedVars, deviceVars, remoteVars>>

\* collections on the loop thread and on the UI thread, in any interleaving
ConcurrentNext ==
    \/ \E c \in Collectors, records \in UidlessBatches : save_records_read(c, records)
    \/ \E c \in Collectors : save_records_insert(c)

\* collections over any device log
CollectNext == \E records \in Batches : collect_attendance(records)

\* collections of one punch under its own uid, and any marking
StoreNext ==
    \/ \E t \in RecIds : collect_attendance(<<Punch(t, t)>>)
    \/ \E T \in SUBSET TsValues, sep \in {"T", " "}, status \in ProcessedStatus :
          MarkByTimestamps(T, sep, status)
    \/ \E id \in RecIds, e \in ErrLists : MarkError(id, e)

(***************************************************************************)
(* upload_attendance_to_api call by call: one action is one whole call,    *)
(* from the read of the UNPROCESSED records to the return, for the         *)
(* outcomes submit refused, poll timed out, import COMPLETED and import    *)
(* FAILED (with an empty failed-lines response).  What a call leaves       *)
(* behind on the remote is kept in `remote`.                               *)
(***************************************************************************)
\* the records of the export batches of the imports still outstanding
InFlight(rem) == UNION {j.batch : j \in rem.outstanding}

\* the records of an outstanding import are left out of the batch
SelectBatch_InFlightLock(st, rem) == get_unprocessed_records(st) \ InFlight(rem)

\* the records a call exports: get_unprocessed_records(), whatever earlier
\* calls have submitted
SelectBatch(st, rem) == get_unprocessed_records(st)

\* the outcomes of a call that found records and exported them
Outcomes == {"submit_failed", "timeout", "completed", "failed"}

\* one call of upload_attendance_to_api; T: the event times of the accepted
\* timestamps, read when the import is COMPLETED
upload_attendance_to_api(outcome, T) ==
    /\ run.pc = "idle"
    /\ artifacts < MaxUploads
    /\ LET records == SelectBatch(store, remote)
           job == remote.submitted + 1
           batch == artifacts + 1
           n == Cardinality(records)
       IN  IF records = {}
           THEN UNCHANGED <<store, logs, artifacts, remote>>
           ELSE /\ artifacts' = artifacts + 1
                /\ CASE outcome = "submit_failed" ->
                          /\ logs' = log_api_upload(logs,
                                        UploadLog(batch, n, "FAILED", 0, 0), TRUE)
                          /\ UNCHANGED <<store, remote>>
                     [] outcome = "timeout" ->
                          /\ remote' = [submitted |-> job,
                                        outstanding |-> remote.outstanding \cup
                                            {[job |-> job, batch |-> records]}]
                          /\ UNCHANGED <<store, logs>>
                     [] outcome = "completed" ->
                          /\ store' = mark_records_processed_by_timestamps(
                                          store, RemoteTsList(T, "T"), TRUE)
                          /\ logs' = log_api_upload(logs,
                                        UploadLog(batch, n, "SUCCESS", job,
                                                  ProcessedCount(RemoteTsList(T, "T"))),
                                        TRUE)
                          /\ remote' = [remote EXCEPT !.submitted = job]
                     [] OTHER ->
                          /\ logs' = log_api_upload(logs,
                                        UploadLog(batch, n, "FAILED", 0, 0), TRUE)
                          /\ remote' = [remote EXCEPT !.submitted = job]
                          /\ UNCHANGED store
    /\ UNCHANGED <<runNo, run>>
    /\ UNCHANGED <<schedVars, repoVars, deviceVars>>

\* the outstanding import of job n reaches a terminal status on the remote; no
\* call is polling it any more
RemoteFinishes(n) ==
    /\ \E j \in remote.outstanding : j.job = n
    /\ remote' = [remote EXCEPT !.outstanding = {j \in @ : j.job # n}]
    /\ UNCHANGED <<schedVars, uploadVars, repoVars, deviceVars>>

\* collections and upload calls following one another
RerunNext ==
    \/ \E t \in RecIds : Collect(t)
    \/ \E outcome \in Outcomes, T \in SUBSET TsValues :
          upload_attendance_to_api(outcome, T)
    \/ \E n \in 1..MaxUploads : RemoteFinishes(n)

(***************************************************************************)
(* DeviceService over the attendance device.  The device is either on the  *)
(* network or not; the session DeviceService holds in connection.conn is   *)
(* absent ("none"), usable ("live") or lost ("dead": the socket of a       *)
(* session that did not survive an outage).                                *)
(***************************************************************************)
\* DeviceService.connect: initialize_connection needs the config row, and
\* zk.connect() gives a session when the device answers; a failure is caught
\* and leaves connection.conn as it was
connect(dev, cfg) ==
    IF cfg # {} /\ dev.reachable THEN [dev EXCEPT !.conn = "live"] ELSE dev

\* the head of every device call:
\* `if not self.connection or not self.connection.conn: self.connect()`
EnsureConnected(dev, cfg) ==
    IF dev.conn = "none" THEN connect(dev, cfg) ELSE dev

\* a call on the session answers when the session is usable and the device is
\* on the network
Answers(dev) == dev.conn = "live" /\ dev.reachable

\* the log is returned whether or not the device answered
get_attendance_records_StaleLog(dev, cfg, fault) ==
    LET d == EnsureConnected(dev, cfg)
    IN  [device  |-> d,
         failure |-> IF d.conn = "none"
                     THEN IF cfg = {} THEN "config" ELSE "connect"
                     ELSE IF ~Answers(d) \/ fault THEN "fetch" ELSE "none",
         records |-> d.log]

\* get_attendance_records: the DeviceService after the call, the records it
\* returns ([] when connect fails or a call on the session raises) and where
\* it failed.  `fault` is an error the device answers a call with.  The
\* session in connection.conn is kept whatever its calls raise.
get_attendance_records(dev, cfg, fault) ==
    LET d == EnsureConnected(dev, cfg)
    IN  [device  |-> d,
         failure |-> IF d.conn = "none"
                     THEN IF cfg = {} THEN "config" ELSE "connect"
                     ELSE IF ~Answers(d) \/ fault THEN "fetch" ELSE "none",
         records |-> IF Answers(d) /\ ~fault THEN d.log ELSE << >>]

\* the job registered as attendance_collection: collect_attendance over what
\* get_attendance_records returns; nothing is saved when that is empty
attendance_collection(fault) ==
    LET r == get_attendance_records(device, config, fault)
    IN  /\ store' = save_records(store, r.records)
        /\ UNCHANGED saving
        /\ lastCall' = [NoCall EXCEPT !.kind = "collect", !.before = store,
                                      !.records = r.records,
                                      !.returned = Len(r.records),
                                      !.failure = r.failure]
        /\ device' = r.device
    /\ UNCHANGED <<logs, artifacts, runNo, run, lastImport>>
    /\ UNCHANGED <<schedVars, remoteVars>>

\* an employee punches: the device appends the punch to its log under its own
\* uid, in the order of the event times
DevicePunch ==
    /\ Len(device.log) < MaxRec
    /\ device' = [device EXCEPT
                     !.log = Append(@, Punch(Len(@) + 1, Len(@) + 1))]
    /\ UNCHANGED <<schedVars, uploadVars, repoVars, lastImport, remoteVars>>

\* the device leaves the network (power, cable); the session DeviceService
\* holds survives the outage or is lost
DeviceDown(lost) ==
    /\ device.reachable
    /\ device' = [device EXCEPT !.reachable = FALSE,
                                !.conn = IF @ = "live" /\ lost THEN "dead" ELSE @]
    /\ UNCHANGED <<schedVars, uploadVars, repoVars, lastImport, remoteVars>>

\* the device is back on the network
DeviceUp ==
    /\ ~device.reachable
    /\ device' = [device EXCEPT !.reachable = TRUE]
    /\ UNCHANGED <<schedVars, uploadVars, repoVars, lastImport, remoteVars>>

(***************************************************************************)
(* SyncService.import_users_from_api_to_device: one cycle is one action.   *)
(* The remote directory is the list get_employees returns ([] when the     *)
(* request fails); a device user is [user_id, name], its name being the    *)
(* employee code.                                                          *)
(***************************************************************************)
\* entries of the remote directory: NoId and NoCode are the values `not emp_id`
\* and `not code` reject (missing, None, 0, '')
EmpIds == {NoId, 1}

Codes == {NoCode, "A", "B"}

\* the complete entries, one without a code and one without an id
Employee == {e \in [id : EmpIds, code : Codes] : e.id # NoId \/ e.code = "A"}

\* the directories of at most MaxEmp entries
Directories == UNION {[1..n -> Employee] : n \in 0..MaxEmp}

\* the codes the device holds
DeviceCodes(dev) == {u.name : u \in dev.users}

\* get_users: the names read from the device, [] when connect fails or the
\* call raises
get_users(dev, fault) ==
    IF Answers(dev) /\ ~fault THEN DeviceCodes(dev) ELSE {}

\* the tests of the loop body: the entry has an id and a code, and its code is
\* not among the saved codes
ToPush(e, saved_codes) ==
    e.id # NoId /\ e.code # NoCode /\ e.code \notin saved_codes

\* set_user(emp_id, code): the device after the call and what set_user returns
set_user(dev, cfg, e, fault) ==
    LET d == EnsureConnected(dev, cfg)
    IN  IF Answers(d) /\ ~fault
        THEN [device |-> [d EXCEPT !.users = @ \cup {[user_id |-> e.id, name |-> e.code]}],
              ok |-> TRUE]
        ELSE [device |-> d, ok |-> FALSE]

\* every call of set_user counts
Imported_Attempts(pushed) == Len(pushed)

\* `imported`: the number of set_user calls that returned True
Imported(pushed) == Cardinality({k \in DOMAIN pushed : pushed[k].ok})

\* the loop over the employees from entry k on: the device and the pushes made
RECURSIVE PushAll(_, _, _, _, _, _, _)
PushAll(dev, cfg, employees, saved_codes, faults, k, pushed) ==
    IF k > Len(employees)
    THEN [device |-> dev, pushed |-> pushed]
    ELSE IF ToPush(employees[k], saved_codes)
    THEN LET r == set_user(dev, cfg, employees[k], faults[k])
         IN  PushAll(r.device, cfg, employees, saved_codes, faults, k + 1,
                     Append(pushed, [id |-> employees[k].id,
                                     code |-> employees[k].code,
                                     ok |-> r.ok]))
    ELSE PushAll(dev, cfg, employees, saved_codes, faults, k + 1, pushed)

\* one cycle over the directory `employees`; usersFault: get_users raises on
\* the device, faults[k]: the device answers the push of entry k with an error
import_users_from_api_to_device(employees, usersFault, faults) ==
    /\ IF employees = << >>
       THEN /\ lastImport' = [NoImport EXCEPT !.before = DeviceCodes(device)]
            /\ device' = device
       ELSE LET d == EnsureConnected(device, config)
                saved_codes == get_users(d, usersFault)
                r == PushAll(d, config, employees, saved_codes, faults, 1, << >>)
            IN  /\ device' = r.device
                /\ lastImport' =
                       [employees |-> employees,
                        before |-> DeviceCodes(device),
                        saved_codes |-> saved_codes,
                        pushed |-> r.pushed,
                        read |-> IF Answers(d) /\ ~usersFault THEN "ok" ELSE "failed",
                        returned |-> Imported(r.pushed)]
    /\ UNCHANGED <<schedVars, uploadVars, repoVars, remoteVars>>

\* import cycles over a device that comes and goes
ImportNext ==
    \/ save_config
    \/ \E employees \in Directories, usersFault \in BOOLEAN :
          \E faults \in [DOMAIN employees -> BOOLEAN] :
              import_users_from_api_to_device(employees, usersFault, faults)
    \/ \E lost \in BOOLEAN : DeviceDown(lost)
    \/ DeviceUp

\* collection ticks over a device that comes and goes, and an upload that marks
\* records between two collections
DeviceNext ==
    \/ save_config
    \/ \E fault \in BOOLEAN : attendance_collection(fault)
    \/ \E T \in SUBSET TsValues : MarkByTimestamps(T, "T", "PROCESSED")
    \/ DevicePunch
    \/ \E lost \in BOOLEAN : DeviceDown(lost)
    \/ DeviceUp

\* the scheduler on its own: the store and the upload run stay as they are
SchedSpec == Init /\ [][SchedNext]_vars

\* the upload runs on their own: the scheduler stays as it is
UploadSpec == Init /\ [][UploadNext]_vars

\* the thread executing a run keeps running until the run returns; a
\* failed-lines response is a finite list, so its entries do not go on for ever
UploadLiveSpec == UploadSpec /\ WF_vars(RunStep)

\* the repository under any sequence of markings
StoreSpec == Init /\ [][StoreNext]_vars

\* the repository under any sequence of collections
CollectSpec == Init /\ [][CollectNext]_vars

\* the upload calls one after the other, as the loop makes them
RerunSpec == Init /\ [][RerunNext]_vars

\* two threads collecting
ConcurrentSpec == Init /\ [][ConcurrentNext]_vars

\* the user import over DeviceService
ImportSpec == Init /\ [][ImportNext]_vars

\* collection over DeviceService
DeviceSpec == Init /\ [][DeviceNext]_vars

\* the loop keeps ticking: the collection job runs again and again
\* and the device does not answer every call with an error
DeviceLiveSpec == DeviceSpec /\ WF_vars(attendance_collection(FALSE))

(***************************************************************************)
(* Claims about the scheduler.                                             *)
(***************************************************************************)
\* the job executions in progress on the loop threads
InProgress == {t \in Threads : thr[t].pc = "exec"}

\* C1: the periodic loop never has two job executions in progress at the same
\* time, neither of the same job nor of two different jobs, for every sequence
\* of register_job, start, stop, enable_job and update_job_interval calls.
C1_AtMostOneExecution == Cardinality(InProgress) <= 1

\* C2: an exception raised by a task the loop executes is caught at the job
\* boundary and does not propagate to the loop: no loop thread is ever
\* terminated by a task's exception.
C2_TaskExceptionStopsAtJobBoundary == \A t \in Threads : thr[t].pc # "crashed"

(***************************************************************************)
(* Claims about the upload run.                                            *)
(***************************************************************************)
\* the APIUploadLog rows written by the current run
RunLogs == SubSeq(logs, run.logs0 + 1, Len(logs))

\* the rows whose event time the remote accepted
AcceptedRows == {i \in StoreIds(store) : store[i].ts.t \in run.accepted}

\* the rows a failed-lines entry of the current run named with a non-empty list
NamedRows == {i \in StoreIds(store) : run.named[i] # << >>}

\* row i is as it was when the run began
SameAsBefore(i) == i \in StoreIds(run.store0) /\ store[i] = run.store0[i]

\* C3: when a run polls COMPLETED and the remote returns the accepted timestamps
\* A (and the store writes of the run succeed), the marking sets exactly the
\* rows whose timestamp is in A to PROCESSED and leaves every other row as it
\* was (rows the reconciler wrote afterwards apart); the run returns
\* processed = |A| and writes one APIUploadLog(SUCCESS) with the job id it
\* acted on and that count.
C3_CompletedMarksAccepted ==
    (run.mode = "completed" /\ ~run.fault) =>
        /\ \A i \in StoreIds(store) \ NamedRows :
              IF i \in AcceptedRows
              THEN store[i].processed = "PROCESSED" /\ store[i].errors = << >>
              ELSE SameAsBefore(i)
        /\ run.pc = "done" =>
              /\ run.result = [success |-> TRUE, processed |-> Cardinality(run.accepted)]
              /\ RunLogs = << [batch_id |-> runNo,
                               records_count |-> Cardinality(run.batch),
                               status |-> "SUCCESS",
                               jobExecutionId |-> run.polled,
                               processed |-> Cardinality(run.accepted)] >>

\* a finished COMPLETED run that marked one submitted record and left another
C3_Witness ==
    /\ run.pc = "done" /\ run.outcome = "completed" /\ ~run.fault
    /\ \E i \in run.batch, j \in run.batch :
          /\ i \in AcceptedRows /\ store[i].processed = "PROCESSED"
          /\ run.store0[i].processed = "UNPROCESSED"
          /\ j \notin AcceptedRows /\ store[j].processed = "UNPROCESSED"

\* C4: when the submit step fails, the run writes one APIUploadLog(FAILED),
\* returns success = false with processed = 0 and leaves every record as it
\* was, so that the next export selects the same UNPROCESSED records.
C4_SubmitFailureLeavesRecords ==
    (run.outcome = "submit_failed" /\ ~run.fault) =>
        /\ Len(RunLogs) = 1 /\ RunLogs[1].status = "FAILED"
        /\ RunLogs[1].batch_id = runNo
        /\ run.result.success = FALSE /\ run.result.processed = 0
        /\ store = run.store0
        /\ get_unprocessed_records(store) = run.batch

\* a run over a non-empty batch whose submit failed
C4_Witness ==
    /\ run.pc = "done" /\ run.outcome = "submit_failed" /\ ~run.fault
    /\ Cardinality(run.batch) = MaxRec

NonTerminal == Statuses \ {"COMPLETED", "FAILED", "STOPPED"}

\* C5: as long as the status polled is STARTED, STARTING or any value other than
\* COMPLETED, FAILED, STOPPED (a missing status included), the run writes
\* nothing and stays in the poll loop, which it leaves only by the timeout (or
\* an exception of the next fetch); after the timeout it returns processed = 0
\* and every submitted record is UNPROCESSED and selected by the next export.
C5_NonTerminalStatusKeepsPolling ==
    /\ run.status \in NonTerminal =>
          /\ run.pc = "poll" \/ run.outcome \in {"timeout", "poll_exception"}
          /\ store = run.store0
          /\ RunLogs = << >>
    /\ run.outcome = "timeout" =>
          /\ run.status \in NonTerminal
          /\ run.result.processed = 0
          /\ \A i \in run.batch : store[i].processed = "UNPROCESSED"
          /\ run.batch \subseteq get_unprocessed_records(store)

\* a run that timed out on an absent status
C5_Witness ==
    /\ run.pc = "done" /\ run.outcome = "timeout" /\ run.status = "missing"
    /\ run.batch # {}

\* C6: the poll loop terminates: the time it has run never exceeds the 30-second
\* bound by a full sleep, and a run that is polling eventually returns.
C6_PollLoopTerminates ==
    /\ [](run.pc = "poll" => run.elapsed < Timeout + PollSleep)
    /\ (run.pc = "poll") ~> (run.pc = "done")

\* a run that left the poll loop by the timeout
C6_Witness == run.pc = "done" /\ run.outcome = "timeout" /\ run.job = runNo

\* C7: an exception raised during the polling phase is caught and the result
\* of upload_attendance_to_api is a failed result (success = false).
C7_PollExceptionGivesFailedResult ==
    (run.pc = "done" /\ run.raised) => run.result.success = FALSE

\* C8: when the status polled is FAILED or STOPPED, the run marks no record
\* PROCESSED, writes one APIUploadLog(FAILED), invokes the Error Reconciler
\* once the log is written, and returns processed = 0.
C8_RemoteFailureLogsAndReconciles ==
    (run.status \in {"FAILED", "STOPPED"} /\ ~run.fault) =>
        /\ run.mode = "failed"
        /\ Len(RunLogs) = 1 /\ RunLogs[1].status = "FAILED"
        /\ run.reconciled
        /\ \A i \in StoreIds(store) :
              store[i].processed = "PROCESSED" => SameAsBefore(i)
        /\ run.pc = "reconcile" \/ (run.pc = "done" /\ run.result.processed = 0)

\* a run the remote reported FAILED or STOPPED in which the reconciler has
\* marked a submitted record
C8_Witness ==
    /\ run.pc = "done" /\ run.outcome = "failed" /\ ~run.fault
    /\ \E i \in run.batch : store[i].processed = "ERROR"

\* the event times of the submitted records
BatchTimes == {store[i].ts.t : i \in run.batch}

\* C9: on COMPLETED the Error Reconciler is invoked when fewer timestamps were
\* accepted than records submitted, and it is not invoked (no failed-lines
\* entry is processed) when the remote returns exactly the timestamps of the
\* submitted records.
C9_ReconcilerOnShortfall ==
    run.mode = "completed" =>
        /\ Cardinality(run.accepted) < Cardinality(run.batch) => run.reconciled
        /\ run.accepted = BatchTimes => (~run.reconciled /\ NamedRows = {})

\* a finished COMPLETED run in which all the submitted timestamps were accepted
C9_Witness ==
    /\ run.pc = "done" /\ run.outcome = "completed"
    /\ run.accepted = BatchTimes /\ Cardinality(run.batch) = MaxRec
    /\ ~run.reconciled

\* a COMPLETED run with partial acceptance whose store writes succeeded has
\* left the reconciler
PartialDone ==
    /\ run.mode = "completed" /\ run.pc \in {"log", "done"} /\ ~run.fault
    /\ Cardinality(run.accepted) < Cardinality(run.batch)

C11_ProcessedOnce ==
    [][\A i \in StoreIds(store) :
          store[i].processed = "PROCESSED" =>
              (i \in StoreIds(store') /\ store'[i] = store[i])]_vars

\* C12: when no UNPROCESSED record exists (and the store can be read), a call
\* of upload_attendance_to_api returns at once with success = true and
\* processed = 0, and neither it nor its return has any effect: no artifact,
\* no submit to the remote API, no APIUploadLog row, no record changed.
C12_NoRecordsNoEffect ==
    [][/\ (/\ run.pc = "idle" /\ run'.pc # "idle"
           /\ {i \in StoreIds(store) : store[i].processed = "UNPROCESSED"} = {}
           /\ run'.outcome # "read_failed")
          => /\ run'.pc = "done" /\ run'.outcome = "no_records"
             /\ run'.result = [success |-> TRUE, processed |-> 0]
             /\ run'.job = 0 /\ run'.status = "none"
             /\ store' = store /\ logs' = logs /\ artifacts' = artifacts
       /\ (run.pc = "done" /\ run.outcome = "no_records")
          => (store' = store /\ logs' = logs /\ artifacts' = artifacts)]_vars

\* a run that found nothing to upload has returned
C12_Witness ==
    /\ run.pc = "done" /\ run.outcome = "no_records"
    /\ get_unprocessed_records(store) = {} /\ run.result.success

\* the run submitted its artifact and the remote answered (accepting the job
\* or refusing the upload)
Attempted == run.job # 0 \/ run.outcome = "submit_failed"

\* C13: every upload attempt that has returned (whatever its outcome: submit
\* failure, COMPLETED, FAILED/STOPPED, timeout, exception during polling) has
\* written exactly one APIUploadLog row, the log writes of the run succeeding,
\* and the rows written before the run are still there.
C13_OneLogPerAttempt ==
    (run.pc = "done" /\ Attempted /\ ~run.fault) =>
        /\ Len(logs) = run.logs0 + 1
        /\ RunLogs[1].batch_id = runNo

\* C14: a store write that fails inside an upload run aborts the run: a run on
\* the COMPLETED branch one of whose store writes (the PROCESSED marking, the
\* log) failed has written no APIUploadLog row and reports no record as
\* processed.
C14_StoreWriteFailureAborts ==
    (run.pc = "done" /\ run.mode = "completed" /\ run.fault) =>
        (RunLogs = << >> /\ run.result.processed = 0)

(***************************************************************************)
(* Claims about the repository functions.                                  *)
(***************************************************************************)
\* C15: mark_records_by_timestamps is idempotent: the store a call leaves is
\* the store the function gives for the store it found, a second application
\* with the same timestamps and status gives that store again, and marking
\* PROCESSED leaves every row that was PROCESSED as it was.
C15_MarkIdempotent ==
    lastCall.kind = "mark" =>
        /\ store = mark_records_by_timestamps(lastCall.before, lastCall.timestamps,
                                              lastCall.status)
        /\ mark_records_by_timestamps(store, lastCall.timestamps, lastCall.status)
              = store
        /\ lastCall.status = "PROCESSED" =>
              \A i \in StoreIds(store) :
                  lastCall.before[i].processed = "PROCESSED" =>
                      store[i] = lastCall.before[i]

\* a marking that took one row from ERROR to PROCESSED and met a row that was
\* PROCESSED already
C15_Witness ==
    /\ lastCall.kind = "mark" /\ lastCall.status = "PROCESSED"
    /\ \E i \in StoreIds(store), j \in StoreIds(store) :
          /\ lastCall.before[i].processed = "ERROR"
          /\ lastCall.before[i].errors # << >>
          /\ store[i].processed = "PROCESSED"
          /\ lastCall.before[j].processed = "PROCESSED"
          /\ {store[i].ts.t, store[j].ts.t} \subseteq
                 {ts.t : ts \in lastCall.timestamps}

\* C16: in every store reachable through collections and the markings of the
\* upload run and of the reconciler, a PROCESSED record has an empty errors
\* list.
C16_ProcessedHasNoErrors ==
    \A i \in StoreIds(store) :
        store[i].processed = "PROCESSED" => store[i].errors = << >>

\* a record that was ERROR with errors has been marked PROCESSED
C16_Witness ==
    /\ lastCall.kind = "mark"
    /\ \E i \in StoreIds(store) :
          /\ lastCall.before[i].processed = "ERROR"
          /\ lastCall.before[i].errors = <<"E2", "E3">>
          /\ store[i].processed = "PROCESSED"

\* C17: a step of the Error Reconciler either changes nothing or sets one
\* record to ERROR together with the non-empty error list of the entry, in the
\* same store update; entries without a record id or without errors change
\* nothing, so that every ERROR record of the store has at least one error.
C17_ErrorOnlyWithErrors ==
    /\ [][run.pc = "reconcile" =>
            \A i \in StoreIds(store) :
                store'[i] # store[i] =>
                    /\ store'[i].processed = "ERROR"
                    /\ store'[i].errors # << >>
                    /\ store'[i].errors = run'.named[i]
                    /\ \A j \in StoreIds(store) \ {i} : store'[j] = store[j]]_vars
    /\ [](\A i \in StoreIds(store) :
             store[i].processed = "ERROR" => store[i].errors # << >>)

\* the reconciler has set a submitted record to ERROR and is still running
C17_Witness ==
    /\ run.pc = "reconcile"
    /\ \E i \in run.batch :
          store[i].processed = "ERROR" /\ store[i].errors = <<"E2", "E3">>

(***************************************************************************)
(* Claims about collection.                                                *)
(***************************************************************************)
\* the batch of the last save_records call after the uids were assigned
Assigned == AssignUids(lastCall.records, FirstUid(lastCall.before))

\* the positions of the batch whose record arrived without a uid
WithoutUid == {k \in DOMAIN lastCall.records : lastCall.records[k].uid = NoUid}

\* the uids of the rows of store st
Uids(st) == {st[i].uid : i \in StoreIds(st)}

\* C18: in every save_records call the uids assigned to the records that
\* arrive without one are strictly increasing in batch order (so pairwise
\* distinct) and come from one counter: each is the first assigned uid plus
\* the number of records without uid before it; records that arrive with a
\* uid keep it, and the store is the result of inserting the batch so numbered.
C18_AssignedUidsIncrease ==
    lastCall.kind = "save" =>
        /\ \A k \in WithoutUid, l \in WithoutUid :
              k < l => Assigned[k].uid < Assigned[l].uid
        /\ \A k \in WithoutUid :
              Assigned[k].uid =
                  FirstUid(lastCall.before)
                  + Cardinality({j \in WithoutUid : j < k})
        /\ \A k \in DOMAIN lastCall.records \ WithoutUid :
              Assigned[k] = lastCall.records[k]
        /\ store = InsertAll(lastCall.before, Assigned)

\* a batch of two records without uid, both inserted
C18_Witness ==
    /\ lastCall.kind = "save" /\ Cardinality(WithoutUid) = 2
    /\ Len(store) = Len(lastCall.before) + 2
    /\ \E i \in StoreIds(store), j \in StoreIds(store) :
          store[i].uid = UidBase /\ store[j].uid = UidBase + 1

\* C19: in save_records the first assigned uid is max(existing uid) + 1 when
\* the store holds a row with uid >= 2,000,000 and 2,000,000 otherwise, and no
\* assigned uid is the uid of a row already in the store.
C19_FirstUidContinues ==
    (lastCall.kind = "save" /\ WithoutUid # {}) =>
        /\ \A k \in WithoutUid :
              (\A j \in WithoutUid : k <= j) =>
                  Assigned[k].uid =
                      IF \E u \in Uids(lastCall.before) : u >= UidBase
                      THEN MaxUid(lastCall.before) + 1
                      ELSE UidBase
        /\ \A k \in WithoutUid : Assigned[k].uid \notin Uids(lastCall.before)

\* C20: after a collection, every punch of the device log has a stored record
\* with its timestamp, whatever the uids reported or stored: an insert is
\* ignored only when the timestamp is already there.
C20_EveryPunchStored ==
    lastCall.kind = "save" =>
        \A k \in DOMAIN lastCall.records :
            \E i \in StoreIds(store) : store[i].ts = lastCall.records[k].ts

(***************************************************************************)
(* C21.  Replaying a device log.                                           *)
(***************************************************************************)
\* the punches of the last collection were all in the store it found
AllStored ==
    \A k \in DOMAIN lastCall.records :
        \E i \in StoreIds(lastCall.before) :
            lastCall.before[i].ts = lastCall.records[k].ts

\* C21: a collection whose punches are all already stored leaves the store as
\* it found it: no row is added and no field of a row changes, so a PROCESSED
\* or ERROR record is never reset to UNPROCESSED by a replay.
C21_ReplayLeavesStore ==
    (lastCall.kind = "save" /\ AllStored) => store = lastCall.before

\* a replay of a punch whose record had been marked PROCESSED or ERROR
C21_Witness ==
    /\ lastCall.kind = "save"
    /\ lastCall.records # << >>
    /\ AllStored
    /\ \E i \in StoreIds(lastCall.before) :
          /\ lastCall.before[i].ts = lastCall.records[1].ts
          /\ lastCall.before[i].processed \in {"PROCESSED", "ERROR"}

(***************************************************************************)
(* C22, C23.  Collection when the device fails.                            *)
(***************************************************************************)
\* the last collection failed on the device: no session could be opened, or
\* the call fetching the punches raised
CollectFailed ==
    lastCall.kind = "collect" /\ lastCall.failure \in {"config", "connect", "fetch"}

\* every punch of the device log has its record in the store
LogStored ==
    \A k \in DOMAIN device.log :
        \E i \in StoreIds(store) : store[i].ts = device.log[k].ts

\* C22: a collection during which the device fails (no connection, or an
\* error while the punches are fetched) returns 0 and leaves the store as it
\* found it.
C22_DeviceFailureCollectsNothing ==
    CollectFailed => (lastCall.returned = 0 /\ store = lastCall.before)

\* a collection failed while the device log held a punch the store lacks
C22_Witness ==
    /\ CollectFailed
    /\ lastCall.failure = "fetch"
    /\ device.log # << >>
    /\ ~LogStored

\* C23: when a collection has failed on a device error and the device is from
\* some time on reachable for good, a later collection stores the punches of
\* the device log.
C23_FailedCollectionRetried ==
    (<>[]device.reachable) =>
        ((lastCall.kind = "collect" /\ lastCall.failure \in {"connect", "fetch"})
             ~> LogStored)

(***************************************************************************)
(* C24, C25.  The user import.                                             *)
(***************************************************************************)
\* the (id, code) pairs of the last cycle's pushes, in push order
PushedPairs ==
    [k \in DOMAIN lastImport.pushed |->
        [id |-> lastImport.pushed[k].id, code |-> lastImport.pushed[k].code]]

\* the entries of the last cycle's directory that have an id and a code, the
\* code being none of those the device held when the cycle began
Missing(e) == e.id # NoId /\ e.code # NoCode /\ e.code \notin lastImport.before

\* C24: a cycle that read the device's users pushes exactly the entries of the
\* directory that have an id and a code absent from the codes the device held
\* at the start of the cycle, and returns the number of pushes the device
\* reported successful.
C24_PushesExactlyMissing ==
    lastImport.read \in {"ok", "none"} =>
        /\ PushedPairs = SelectSeq(lastImport.employees, Missing)
        /\ lastImport.returned =
               Cardinality({k \in DOMAIN lastImport.pushed : lastImport.pushed[k].ok})

\* a cycle over a directory with an entry that is skipped and an entry whose
\* push the device refused
C24_Witness ==
    /\ lastImport.read = "ok"
    /\ lastImport.before # {}
    /\ Len(lastImport.pushed) = 1
    /\ Len(lastImport.employees) = 2
    /\ ~lastImport.pushed[1].ok

\* C25: in every cycle, no push is made for a code the device held when the
\* cycle began.
C25_RegisteredNeverPushedAgain ==
    \A k \in DOMAIN lastImport.pushed :
        lastImport.pushed[k].code \notin lastImport.before

(***************************************************************************)
(* C26..C30.  The scheduler's registry, schedule and loop.                 *)
(***************************************************************************)
\* job n has an entry in schedule sc
HasEntry(sc, n) == \E e \in sc : e.name = n

\* C26: when enable_job(name, True) returns True for a registered job (with an
\* interval unit schedule_job knows) while the loop is running, the job has a
\* schedule entry after the call.
C26_EnabledJobHasEntry ==
    [][\A n \in JobNames :
          (/\ enable_job(n, TRUE)
           /\ running
           /\ n \in Registered
           /\ KnownUnit(jobs[n].interval_unit)) => HasEntry(sched', n)]_vars

\* C27: the loop never starts the execution of a job whose enabled flag is
\* false.  Only the entries still in the schedule when their execution starts
\* are looked at: an entry cancelled between the tick that found it due and
\* its execution is left aside.
C27_DisabledNeverExecuted ==
    [][\A t \in Threads :
          JobBegin(t) =>
              \A e \in thr'[t].cur :
                  (\E x \in sched : x.id = e.id) => jobs[e.name].enabled]_vars

\* C28: stop() is cooperative.  A loop thread that finishes a job after stop()
\* has been called (running is false) starts no other job: it does not go on
\* to the entries that were due in the same tick.
C28_NoJobStartAfterStop ==
    [][\A t \in Threads :
          (JobEnd(t) /\ ~running) => thr'[t].pc # "pending"]_vars

\* the job register_job builds for attendance_upload from the Config row
UploadJobFromConfig ==
    [interval |-> (CHOOSE c \in config : TRUE).upload_interval,
     interval_unit |-> "minutes", enabled |-> TRUE, last_run |-> NoRun,
     job |-> NoHandle]

\* C29: register_job without an interval registers attendance_upload with the
\* Config row's upload_interval in minutes, and changes nothing for a name
\* without a Config mapping or when there is no Config row; start() then gives
\* a job registered with upload_interval = 1 an entry due every minute.
C29_IntervalFromConfig ==
    /\ [][\A n \in JobNames, u \in Units :
             register_job(n, NoInterval, u) =>
                 IF config # {} /\ n = "attendance_upload"
                 THEN jobs' = (n :> UploadJobFromConfig) @@ jobs
                 ELSE jobs' = jobs]_vars
    /\ [][(/\ start
           /\ "attendance_upload" \in Registered
           /\ jobs["attendance_upload"].enabled
           /\ jobs["attendance_upload"].interval = 1
           /\ jobs["attendance_upload"].interval_unit = "minutes")
          => \E e \in sched' : /\ e.name = "attendance_upload"
                               /\ e.period = 1
                               /\ e.remaining = 1]_vars

\* attendance_upload registered from the Config row, started, and executing
\* one minute later
C29_Witness ==
    /\ config # {}
    /\ "attendance_upload" \in Registered
    /\ [jobs["attendance_upload"] EXCEPT !.job = NoHandle] = UploadJobFromConfig
    /\ jobs["attendance_upload"].interval = 1
    /\ \E t \in Threads :
          /\ thr[t].pc = "exec"
          /\ \E e \in thr[t].cur : e.name = "attendance_upload" /\ e.period = 1

\* the entries of job n in schedule sc
EntriesOf(sc, n) == {e \in sc : e.name = n}

\* start() called while the loop is running changes neither the registry, nor
\* the schedule, nor the threads
StartWhileRunningNoOp ==
    (start_running /\ running) => UNCHANGED <<jobs, sched, nextId, running, thr, nthreads>>

\* C30 as stated: start() while running changes nothing; start() when stopped
\* keeps no entry of the schedule it found and leaves exactly one entry for
\* each enabled job and none for a disabled job.
C30_Original ==
    [][/\ StartWhileRunningNoOp
       /\ start =>
             /\ \A e \in sched' : e.id \notin {x.id : x \in sched}
             /\ \A e \in sched' : e.name \in Registered
             /\ \A n \in Registered :
                   Cardinality(EntriesOf(sched', n)) =
                       IF jobs[n].enabled THEN 1 ELSE 0]_vars

\* C30, amended: start() while running changes nothing; start() when stopped
\* keeps no entry of the schedule it found and leaves exactly one entry for
\* each enabled job whose interval unit is minutes, hours or days, and none
\* for any other job.
C30_StartIdempotent ==
    [][/\ StartWhileRunningNoOp
       /\ start =>
             /\ \A e \in sched' : e.id \notin {x.id : x \in sched}
             /\ \A e \in sched' : e.name \in Registered
             /\ \A n \in Registered :
                   Cardinality(EntriesOf(sched', n)) =
                       IF jobs[n].enabled /\ KnownUnit(jobs[n].interval_unit)
                       THEN 1 ELSE 0]_vars

\* the loop has just been started over a registry with an enabled job, which
\* has its entry, and a disabled job, which has none
C30_Witness ==
    /\ running
    /\ \E t \in Threads : thr[t].pc = "check"
    /\ \E n \in Registered, m \in Registered :
          /\ jobs[n].enabled
          /\ Cardinality(EntriesOf(sched, n)) = 1
          /\ \A e \in EntriesOf(sched, n) : e.remaining = e.period /\ e.id = jobs[n].job
          /\ ~jobs[m].enabled
          /\ KnownUnit(jobs[m].interval_unit)
          /\ EntriesOf(sched, m) = {}

(***************************************************************************)
(* C31..C33, C36, C37.  run_job_now, update_job_interval and the schedule. *)
(***************************************************************************)
\* C31: run_job_now(name) executes the task of a registered job once, whether
\* or not the job is enabled or the loop is running, and leaves the schedule
\* alone; when the task returns, last_run is set and the call returns true;
\* when the task raises, the call returns false and the registry is as it
\* was; for an unknown name nothing is executed and the call returns false.
C31_RunJobNow ==
    /\ [][\A n \in JobNames :
             run_job_now(n) =>
                 /\ sched' = sched /\ jobs' = jobs
                 /\ IF n \in Registered
                    THEN manual'.pc = "exec" /\ manual'.executed = 1
                    ELSE /\ manual'.pc = "idle" /\ manual'.executed = 0
                         /\ ~manual'.returned]_vars
    /\ [][\A raises \in BOOLEAN :
             run_job_now_return(raises) =>
                 /\ sched' = sched
                 /\ manual'.executed = 1
                 /\ manual'.returned = ~raises
                 /\ IF raises
                    THEN jobs' = jobs
                    ELSE /\ jobs'[manual.name].last_run # NoRun
                         /\ jobs' = [jobs EXCEPT ![manual.name].last_run =
                                                     jobs'[manual.name].last_run]]_vars

\* a disabled job was run by hand while the loop was stopped, and its task
\* returned
C31_Witness ==
    /\ manual.pc = "idle"
    /\ manual.returned
    /\ ~running
    /\ manual.name \in Registered
    /\ ~jobs[manual.name].enabled
    /\ jobs[manual.name].last_run # NoRun

\* the unit job n has after update_job_interval(n, i, u)
UnitAfter(n, u) == IF u # None THEN u ELSE jobs[n].interval_unit

\* C32: update_job_interval on a registered job stores the new interval (and
\* unit, if given); when the loop is running and the job is enabled (the unit
\* being one schedule_job knows), the job then has exactly one schedule entry,
\* a new one with the new interval; when the job is disabled or the loop is
\* stopped the schedule is left as it was; for an unknown name nothing
\* changes.
C32_UpdateReschedules ==
    [][\A n \in JobNames, i \in Intervals, u \in Units \cup {None} :
          update_job_interval(n, i, u) =>
              IF n \notin Registered
              THEN jobs' = jobs /\ sched' = sched
              ELSE /\ jobs'[n].interval = i
                   /\ jobs'[n].interval_unit = UnitAfter(n, u)
                   /\ IF running /\ jobs[n].enabled
                      THEN KnownUnit(UnitAfter(n, u)) =>
                             /\ Cardinality(EntriesOf(sched', n)) = 1
                             /\ \A e \in EntriesOf(sched', n) :
                                   /\ e.id \notin {x.id : x \in sched}
                                   /\ e.period = i * UnitMinutes(UnitAfter(n, u))
                      ELSE sched' = sched]_vars

\* C33: an execution of a job started by run_job_now never overlaps an
\* execution of the same job started by the loop.
C33_ManualNeverOverlapsLoop ==
    manual.pc = "exec" =>
        \A t \in Threads :
            thr[t].pc = "exec" => \A e \in thr[t].cur : e.name # manual.name

\* C36: while the loop is stopped, get_job_status reports scheduled = false for
\* every registered job and no job holds a schedule handle.
C36_StoppedMeansUnscheduled ==
    ~running =>
        \A n \in Registered :
            ~get_job_status(jobs, n).scheduled /\ jobs[n].job = NoHandle

\* C37: the schedule never holds two entries for the same job name.
C37_OneEntryPerJob ==
    \A n \in JobNames : Cardinality(EntriesOf(sched, n)) <= 1

(***************************************************************************)
(* C34, C35, C38, C39.  The upload run and the remote's imports.           *)
(***************************************************************************)
\* the UNPROCESSED records of the store
Unprocessed == {i \in StoreIds(store) : store[i].processed = "UNPROCESSED"}

\* C34: nothing keeps a record of an outstanding import out of the next
\* export: a call whose poll times out leaves an outstanding import whose
\* batch is every UNPROCESSED record of the store, the records of the imports
\* already outstanding included.
C34_NoInFlightLock ==
    [][\A T \in SUBSET TsValues :
          (upload_attendance_to_api("timeout", T) /\ Unprocessed # {}) =>
              \E j \in remote'.outstanding \ remote.outstanding :
                  j.batch = Unprocessed]_vars

\* an UNPROCESSED record is in the export batches of two imports that are
\* both outstanding
C34_Witness ==
    \E j \in remote.outstanding, k \in remote.outstanding :
        /\ j.job # k.job
        /\ \E i \in j.batch \cap k.batch : store[i].processed = "UNPROCESSED"

\* C35: the import whose COMPLETED status a run acts on, and whose accepted
\* timestamps it fetches, is the job the run submitted.
C35_PollsSubmittedJob ==
    run.pc = "fetch" => run.polled = run.job

\* the rows of the store whose status differs after the step
StatusChanged ==
    {i \in StoreIds(store) : store'[i].processed # store[i].processed}

\* C38: the status of a record changes only on remote evidence.  It becomes
\* PROCESSED only at the fetch of a run that polled COMPLETED, the record's
\* timestamp being in the accepted list; it becomes ERROR only when an entry
\* of a failed-lines response names its id with a non-empty error list; no
\* other step (collection, submit, poll, timeout, log, return) changes a
\* status.
C38_StatusOnRemoteEvidence ==
    [][\A i \in StatusChanged :
          \/ /\ store'[i].processed = "PROCESSED"
             /\ run.pc = "fetch"
             /\ run.status = "COMPLETED"
             /\ \E t \in run'.accepted : store[i].ts = LocalTs(t)
          \/ /\ store'[i].processed = "ERROR"
             /\ run.pc = "reconcile"
             /\ i \in DOMAIN run'.named
             /\ run'.named[i] # << >>
             /\ store'[i].errors = run'.named[i]]_vars

\* a run accepted one record of a batch of two and left the other UNPROCESSED
C38_Witness ==
    /\ run.pc = "done"
    /\ run.outcome = "completed"
    /\ Cardinality(run.batch) = 2
    /\ \E i \in run.batch, k \in run.batch :
          /\ store[i].processed = "PROCESSED"
          /\ run.store0[i].processed = "UNPROCESSED"
          /\ store[k].processed = "UNPROCESSED"

\* C39: no step deletes a record or changes its timestamp, and no record goes
\* from PROCESSED or ERROR back to UNPROCESSED.
C39_NoDeleteNoReset ==
    [][/\ Len(store') >= Len(store)
       /\ \A i \in StoreIds(store) :
             /\ store'[i].ts = store[i].ts
             /\ store[i].processed # "UNPROCESSED" =>
                    store'[i].processed # "UNPROCESSED"]_vars

\* a run has returned leaving a PROCESSED and an ERROR record, which the
\* collections that follow replay
C39_Witness ==
    /\ run.pc = "idle"
    /\ Len(store) = 2
    /\ \E i \in StoreIds(store), k \in StoreIds(store) :
          store[i].processed = "PROCESSED" /\ store[k].processed = "ERROR"

\* the timestamps of the rows of store st, and of the records of a batch
StoredTs(st) == {st[i].ts : i \in StoreIds(st)}
BatchTs(records) == {records[k].ts : k \in DOMAIN records}

\* both threads finished a save_records call, and each had read MAX(uid)
\* from the same store before the other inserted
BothSavedConcurrently ==
    /\ \A c \in Collectors : saving[c].pc = "done"
    /\ saving["loop"].before = saving["ui"].before

\* the two calls, made one after the other in some order, store every punch
SerialKeepsAll ==
    LET st == saving["loop"].before
        A == saving["loop"].records
        B == saving["ui"].records
    IN  \/ BatchTs(A) \cup BatchTs(B) \subseteq StoredTs(save_records(save_records(st, A), B))
        \/ BatchTs(A) \cup BatchTs(B) \subseteq StoredTs(save_records(save_records(st, B), A))

\* C40: when two collections ran concurrently, each reading max(uid) before
\* the other inserted, the store has unique uids and unique timestamps and
\* holds every punch of both batches (for batches that a serial execution of
\* the two calls stores completely)
C40_ConcurrentCollectionsKeepAll ==
    (BothSavedConcurrently /\ SerialKeepsAll) =>
        /\ \A i \in StoreIds(store), j \in StoreIds(store) :
              i # j => store[i].uid # store[j].uid /\ store[i].ts # store[j].ts
        /\ \A c \in Collectors : BatchTs(saving[c].records) \subseteq StoredTs(store)


====
